---- MODULE Spec2Model ----
(***************************************************************************)
(* SillyDelay (src/src/lib.rs): a stereo delay VST plugin.  The plugin     *)
(* struct holds three parameters, the host sample rate and one             *)
(* CircularBuffer of (left, right) pairs; the host calls set_parameter,    *)
(* set_sample_rate and process, one call at a time.                        *)
(*                                                                         *)
(* Number representation.  f32 parameter and sample values are held as     *)
(* integers counting 1/Unit (0.001 is 1, 1.0 is Unit); a product is        *)
(* rounded to the nearest multiple of 1/Unit, as an f32 product is rounded *)
(* to the nearest f32.  The sample rate is an f32 holding a whole number   *)
(* of Hertz and is kept in Hertz.                                          *)
(***************************************************************************)
EXTENDS Integers, Sequences, FiniteSets, TLC

(* ---------------------------------------------------------------------- *)
(* Bounds of the model                                                     *)
(* ---------------------------------------------------------------------- *)

\* longest block of arbitrary samples the host delivers in one process call
MaxBlock == 2

\* most frames pushed into one delay line by successive blocks before it is
\* rebuilt (a newly built delay line takes a first block of any length)
MaxFrames == 3

(* ---------------------------------------------------------------------- *)
(* Numbers                                                                 *)
(* ---------------------------------------------------------------------- *)

\* the f32 value 1.0
Unit == 1000

\* line 12: const FEEDBACK_FACTOR: f32 = 0.1
FEEDBACK_FACTOR == 100

\* n / d rounded to the nearest integer (ties away from zero), d > 0
Round(n, d) ==
  IF n >= 0 THEN (2 * n + d) \div (2 * d) ELSE -((2 * (-n) + d) \div (2 * d))

\* f32 product a * b
FMul(a, b) == Round(a * b, Unit)

\* f32::max
FMax(a, b) == IF a >= b THEN a ELSE b

\* `x as usize` for x counted in 1/Unit: truncates toward zero, saturates at 0
AsUsize(x) == IF x <= 0 THEN 0 ELSE x \div Unit

\* Option<T>
None == <<>>
Some(x) == <<x>>
Unwrap(o) == o[1]

\* the pair (0f32, 0f32)
ZeroPair == <<0, 0>>

(* ---------------------------------------------------------------------- *)
(* queues::CircularBuffer<(f32, f32)>, as the plugin uses it               *)
(* ---------------------------------------------------------------------- *)

\* The buffer is the one of the queues crate.  lib.rs documents what it
\* relies on: a maximum size, add popping the next element first in first
\* out, add returning None unless the buffer was filled (lines 188-191), and
\* with_default populating every slot (lines 236-237).

\* CircularBuffer::with_default(capacity, default_value): every slot filled
WithDefault(capacity, default_value) ==
  [queue         |-> [i \in 1..capacity |-> default_value],
   capacity      |-> capacity,
   default_value |-> Some(default_value)]

\* CircularBuffer::add(val): the value is appended as the newest element; a
\* full buffer gives back its oldest element, a buffer still filling up
\* gives back its default value.  The result is [buf, ret], ret an Option.
Add(buf, val) ==
  IF Len(buf.queue) < buf.capacity
    THEN [buf |-> [buf EXCEPT !.queue = Append(buf.queue, val)],
          ret |-> buf.default_value]
    ELSE [buf |-> [buf EXCEPT !.queue = Tail(Append(buf.queue, val))],
          ret |-> Some(Head(Append(buf.queue, val)))]

(* ---------------------------------------------------------------------- *)
(* Free functions of lib.rs                                                *)
(* ---------------------------------------------------------------------- *)

\* a mix with the dry and the wet share exchanged
mix_samples_swapped(original, added, amount) ==
  LET dry == Unit - amount
  IN  FMul(original, amount) + FMul(added, dry)

\* fn mix_samples(original, added, amount)
mix_samples(original, added, amount) ==
  LET dry == Unit - amount
  IN  FMul(original, dry) + FMul(added, amount)

\* a delay buffer sized without the factor 2
reload_delay_buffer_half(rate, time) ==
  LET size == AsUsize(rate * time)
  IN  WithDefault(size, ZeroPair)

\* a delay buffer built by CircularBuffer::new(size): nothing in it yet
reload_delay_buffer_unfilled(rate, time) ==
  LET size == AsUsize(rate * time * 2)
  IN  [queue |-> <<>>, capacity |-> size, default_value |-> None]

\* fn reload_delay_buffer(sample_rate, delay_time)
reload_delay_buffer(rate, time) ==
  LET size == AsUsize(rate * time * 2)
  IN  WithDefault(size, ZeroPair)

(* ---------------------------------------------------------------------- *)
(* Inputs the host supplies                                                *)
(* ---------------------------------------------------------------------- *)

\* sample rates the host reports (Hz)
Rates == {100, 250}

\* host.get_time_info(0) at construction: Some(rate), or None
TimeInfos == {Some(r) : r \in Rates} \cup {None}

\* values passed to set_parameter, per parameter index
DelayValues == {0, 5, 10}
FeedbackValues == {0, 500, 2000}
DryWetValues == {0, 1000, 1500}
OtherValues == {500}

\* parameter indices: the three parameters and one that does not exist
Indices == {0, 1, 2, 3}

ValuesFor(index) ==
  CASE index = 0 -> DelayValues
    [] index = 1 -> FeedbackValues
    [] index = 2 -> DryWetValues
    [] OTHER -> OtherValues

\* (left, right) sample frames
Frames == {ZeroPair, <<Unit, -500>>}

\* a unit impulse on both channels followed by silence, n frames long
Impulse(n) == [i \in 1..n |-> IF i = 1 THEN <<Unit, Unit>> ELSE ZeroPair]

ImpulseLens == {5, 6}

\* input blocks: every short block, and the impulse blocks
Blocks ==
  UNION {[1..n -> Frames] : n \in 1..MaxBlock}
    \cup {Impulse(n) : n \in ImpulseLens}

\* what the output channels hold when process is called: the input itself
\* (the host processes in place) or silence
OutputsBefore(inputs) == {inputs, [i \in 1..Len(inputs) |-> ZeroPair]}

(* ---------------------------------------------------------------------- *)
(* State                                                                   *)
(* ---------------------------------------------------------------------- *)

VARIABLES
  delay_time,     \* SillyDelay.delay_time
  dry_wet,        \* SillyDelay.dry_wet
  sample_rate,    \* SillyDelay.sample_rate
  delay_buffer,   \* SillyDelay.delay_buffer
  feedback_amt,   \* SillyDelay.feedback_amt
  audio,          \* the AudioBuffer of the process call that has just
                  \* returned: inputs, and outputs before and after the
                  \* call; NoAudio once the host has made another call
  pushed,         \* history: values given to delay_buffer.add since the
                  \* delay line was last built, oldest first
  popped,         \* history: the Options those add calls returned
  discarded,      \* history: TRUE when the queue that was dropped at the
                  \* last rebuild of the delay line held a pair other than
                  \* silence
  last_op,        \* history: the last call the host made, with its arguments
  mix_call        \* the arguments and the result of a call of mix_samples
                  \* made on its own, NoCall if there was none

vars == <<delay_time, dry_wet, sample_rate, delay_buffer, feedback_amt,
          audio, pushed, popped, discarded, last_op, mix_call>>

NoCall == <<>>

\* a queue that holds a pair other than silence
Live(queue) == \E i \in 1..Len(queue) : queue[i] # ZeroPair

NoAudio == [inputs |-> <<>>, outputs_before |-> <<>>, outputs |-> <<>>]

Op(name, index, value) == [op |-> name, index |-> index, value |-> value]

(* ---------------------------------------------------------------------- *)
(* Plugin::new                                                             *)
(* ---------------------------------------------------------------------- *)

\* the sample rate read from the host's TimeInfo, 0.0 if there is none
InitialSampleRate(time_info) ==
  IF time_info # None THEN Unwrap(time_info) ELSE 0

InitFrom(time_infos) ==
  \E time_info \in time_infos :
    LET rate == InitialSampleRate(time_info) IN
      /\ delay_time = 1
      /\ dry_wet = Unit
      /\ sample_rate = rate
      /\ delay_buffer = reload_delay_buffer(rate, 1)
      /\ feedback_amt = 100
      /\ audio = NoAudio
      /\ pushed = <<>>
      /\ popped = <<>>
      /\ discarded = FALSE
      /\ last_op = Op("new", 0, rate)
      /\ mix_call = NoCall

(* ---------------------------------------------------------------------- *)
(* Plugin::set_parameter, get_parameter                                    *)
(* ---------------------------------------------------------------------- *)

\* a delay time clamped from above instead of from below
ClampDelayTime_Min(value) == IF value <= 1 THEN value ELSE 1

\* a delay time stored as the host gives it
ClampDelayTime_None(value) == value

\* line 89: value.max(0.001)
ClampDelayTime(value) == FMax(value, 1)

\* a dry/wet share clamped to 0.0 .. 1.0
StoreDryWet_Clamped(value) ==
  IF value < 0 THEN 0 ELSE IF value > Unit THEN Unit ELSE value

\* line 95: self.dry_wet = value
StoreDryWet(value) == value

\* line 94: value.max(0.1)
ClampFeedback(value) == FMax(value, 100)

\* the fields set_parameter(index, value) leaves the struct with
\* a set_parameter that rebuilds the delay line whatever the index
SetParameterResult_ReloadAlways(index, value) ==
  CASE index = 0 ->
         LET time == ClampDelayTime(value) IN
           [delay_time   |-> time,
            delay_buffer |-> reload_delay_buffer(sample_rate, time),
            feedback_amt |-> feedback_amt,
            dry_wet      |-> dry_wet]
    [] index = 1 ->
         [delay_time   |-> delay_time,
          delay_buffer |-> reload_delay_buffer(sample_rate, delay_time),
          feedback_amt |-> ClampFeedback(value),
          dry_wet      |-> dry_wet]
    [] index = 2 ->
         [delay_time   |-> delay_time,
          delay_buffer |-> reload_delay_buffer(sample_rate, delay_time),
          feedback_amt |-> feedback_amt,
          dry_wet      |-> StoreDryWet(value)]
    [] OTHER ->
         [delay_time   |-> delay_time,
          delay_buffer |-> reload_delay_buffer(sample_rate, delay_time),
          feedback_amt |-> feedback_amt,
          dry_wet      |-> dry_wet]

SetParameterResult(index, value) ==
  CASE index = 0 ->
         LET time == ClampDelayTime(value) IN
           [delay_time   |-> time,
            delay_buffer |-> reload_delay_buffer(sample_rate, time),
            feedback_amt |-> feedback_amt,
            dry_wet      |-> dry_wet]
    [] index = 1 ->
         [delay_time   |-> delay_time,
          delay_buffer |-> delay_buffer,
          feedback_amt |-> ClampFeedback(value),
          dry_wet      |-> dry_wet]
    [] index = 2 ->
         [delay_time   |-> delay_time,
          delay_buffer |-> delay_buffer,
          feedback_amt |-> feedback_amt,
          dry_wet      |-> StoreDryWet(value)]
    [] OTHER ->
         [delay_time   |-> delay_time,
          delay_buffer |-> delay_buffer,
          feedback_amt |-> feedback_amt,
          dry_wet      |-> dry_wet]

set_parameter(index, value) ==
  LET r == SetParameterResult(index, value) IN
    /\ delay_time' = r.delay_time
    /\ delay_buffer' = r.delay_buffer
    /\ feedback_amt' = r.feedback_amt
    /\ dry_wet' = r.dry_wet
    /\ pushed' = IF index = 0 THEN <<>> ELSE pushed
    /\ popped' = IF index = 0 THEN <<>> ELSE popped
    /\ discarded' = IF index = 0 THEN Live(delay_buffer.queue) ELSE discarded
    /\ last_op' = Op("set_parameter", index, value)
    /\ audio' = NoAudio
    /\ UNCHANGED <<sample_rate, mix_call>>

SetParameterFrom(indices) ==
  \E index \in indices : \E value \in ValuesFor(index) :
    set_parameter(index, value)

\* get_parameter with the dry/wet arm as the default arm
get_parameter_default_arm(index) ==
  CASE index = 0 -> delay_time
    [] index = 1 -> feedback_amt
    [] OTHER -> dry_wet

get_parameter(index) ==
  CASE index = 0 -> delay_time
    [] index = 1 -> feedback_amt
    [] index = 2 -> dry_wet
    [] OTHER -> 0

get_parameter_name(index) ==
  CASE index = 0 -> "Delay Time"
    [] index = 1 -> "Feedback"
    [] index = 2 -> "Dry/Wet"
    [] OTHER -> ""

\* the digits after the decimal point of f/Unit, 0 < f < Unit, without
\* trailing zeros
Fraction(f) ==
  LET pad(n, width) ==
        IF width = 3 /\ n < 10 THEN "00" \o ToString(n)
        ELSE IF width >= 2 /\ n < 10 THEN "0" \o ToString(n)
        ELSE IF width = 3 /\ n < 100 THEN "0" \o ToString(n)
        ELSE ToString(n)
  IN  IF f % 100 = 0 THEN pad(f \div 100, 1)
      ELSE IF f % 10 = 0 THEN pad(f \div 10, 2)
      ELSE pad(f, 3)

\* format!("{}", x): the decimal digits of x, no fraction for a whole number
Format(x) ==
  LET a == IF x < 0 THEN -x ELSE x
      whole == ToString(a \div Unit)
      text == IF a % Unit = 0 THEN whole
              ELSE whole \o "." \o Fraction(a % Unit)
  IN  IF x < 0 THEN "-" \o text ELSE text

get_parameter_text(index) ==
  CASE index = 0 -> Format(FMul(delay_time, 2000 * Unit))
    [] index = 1 -> Format(FMul(feedback_amt, 100 * Unit))
    [] index = 2 -> Format(FMul(dry_wet, 100 * Unit))
    [] OTHER -> ""

get_parameter_label(index) ==
  CASE index = 0 -> "ms"
    [] index = 1 -> "%"
    [] index = 2 -> "%"
    [] OTHER -> ""

(* ---------------------------------------------------------------------- *)
(* Plugin::set_sample_rate                                                 *)
(* ---------------------------------------------------------------------- *)

\* a sample-rate change that keeps the old delay buffer
set_sample_rate_kept(rate) ==
  /\ sample_rate' = rate
  /\ delay_buffer' = delay_buffer
  /\ pushed' = <<>>
  /\ popped' = <<>>
  /\ discarded' = Live(delay_buffer.queue)
  /\ last_op' = Op("set_sample_rate", 0, rate)
  /\ audio' = NoAudio
  /\ UNCHANGED <<delay_time, dry_wet, feedback_amt, mix_call>>

set_sample_rate(rate) ==
  /\ sample_rate' = rate
  /\ delay_buffer' = reload_delay_buffer(rate, delay_time)
  /\ pushed' = <<>>
  /\ popped' = <<>>
  /\ discarded' = Live(delay_buffer.queue)
  /\ last_op' = Op("set_sample_rate", 0, rate)
  /\ audio' = NoAudio
  /\ UNCHANGED <<delay_time, dry_wet, feedback_amt, mix_call>>

SetSampleRateFrom(rates) == \E rate \in rates : set_sample_rate(rate)

(* ---------------------------------------------------------------------- *)
(* Plugin::process                                                         *)
(* ---------------------------------------------------------------------- *)

\* a feedback gain without the headroom subtraction
FeedbackGain_NoHeadroom == feedback_amt

\* the effective feedback gain of lines 201-202
FeedbackGain == feedback_amt - FEEDBACK_FACTOR

\* a process call that starts from a newly built delay buffer
ProcessEntry_Reloaded(outputs) ==
  [buf |-> reload_delay_buffer(sample_rate, delay_time), fb |-> ZeroPair,
   outputs |-> outputs, pushed |-> pushed, popped |-> popped]

\* a process call that starts with the feedback of the last pop made so far
ProcessEntry_KeptFeedback(outputs) ==
  LET last == IF popped = <<>> THEN ZeroPair ELSE Unwrap(popped[Len(popped)])
  IN  [buf |-> delay_buffer,
       fb |-> <<FMul(last[1], FeedbackGain), FMul(last[2], FeedbackGain)>>,
       outputs |-> outputs, pushed |-> pushed, popped |-> popped]

\* What a process call starts its loop with: the plugin's delay buffer as the
\* previous calls left it, the feedback pair (0, 0) of line 155, and the
\* output channels as the host passed them.
ProcessEntry(outputs) ==
  [buf |-> delay_buffer, fb |-> ZeroPair, outputs |-> outputs,
   pushed |-> pushed, popped |-> popped]

\* a loop body that takes each channel's feedback from the other channel
ProcessFrame_Crossed(st, inputs, i) ==
  LET val == <<inputs[i][1] + st.fb[1], inputs[i][2] + st.fb[2]>>
      a   == Add(st.buf, val)
  IN  IF a.ret # None
        THEN LET temp == Unwrap(a.ret) IN
          [buf     |-> a.buf,
           fb      |-> <<FMul(temp[2], FeedbackGain),
                         FMul(temp[1], FeedbackGain)>>,
           outputs |-> [st.outputs EXCEPT
                          ![i] = <<mix_samples(st.outputs[i][1], temp[1], dry_wet),
                                   mix_samples(st.outputs[i][2], temp[2], dry_wet)>>],
           pushed  |-> Append(st.pushed, val),
           popped  |-> Append(st.popped, a.ret)]
        ELSE
          [buf     |-> a.buf,
           fb      |-> st.fb,
           outputs |-> st.outputs,
           pushed  |-> Append(st.pushed, val),
           popped  |-> Append(st.popped, a.ret)]

\* One pass of the inner loop body (lines 192-209) for frame i.  st holds
\* the delay buffer, the feedback pair, the output channels and the two
\* histories.
ProcessFrame(st, inputs, i) ==
  LET val == <<inputs[i][1] + st.fb[1], inputs[i][2] + st.fb[2]>>
      a   == Add(st.buf, val)
  IN  IF a.ret # None
        THEN LET temp == Unwrap(a.ret) IN
          [buf     |-> a.buf,
           fb      |-> <<FMul(temp[1], FeedbackGain),
                         FMul(temp[2], FeedbackGain)>>,
           outputs |-> [st.outputs EXCEPT
                          ![i] = <<mix_samples(st.outputs[i][1], temp[1], dry_wet),
                                   mix_samples(st.outputs[i][2], temp[2], dry_wet)>>],
           pushed  |-> Append(st.pushed, val),
           popped  |-> Append(st.popped, a.ret)]
        ELSE
          [buf     |-> a.buf,
           fb      |-> st.fb,
           outputs |-> st.outputs,
           pushed  |-> Append(st.pushed, val),
           popped  |-> Append(st.popped, a.ret)]

\* the inner loop over the frames 1..n of the block, in order
RECURSIVE ProcessLoop(_, _, _)
ProcessLoop(st, inputs, n) ==
  IF n = 0 THEN st
  ELSE ProcessFrame(ProcessLoop(st, inputs, n - 1), inputs, n)

process(inputs, outputs) ==
  LET st == ProcessLoop(ProcessEntry(outputs), inputs, Len(inputs))
  IN  /\ delay_buffer' = st.buf
      /\ audio' = [inputs |-> inputs, outputs_before |-> outputs,
                   outputs |-> st.outputs]
      /\ pushed' = st.pushed
      /\ popped' = st.popped
      /\ last_op' = Op("process", 0, Len(inputs))
      /\ UNCHANGED <<delay_time, dry_wet, sample_rate, feedback_amt, discarded,
                     mix_call>>

ProcessFrom(blocks) ==
  \E inputs \in blocks : \E outputs \in OutputsBefore(inputs) :
    /\ pushed = <<>> \/ Len(pushed) + Len(inputs) <= MaxFrames
    /\ process(inputs, outputs)

(* ---------------------------------------------------------------------- *)
(* Specification                                                           *)
(* ---------------------------------------------------------------------- *)

Init == InitFrom(TimeInfos)

SetParameter == SetParameterFrom(Indices)

SetSampleRate == SetSampleRateFrom(Rates)

Process == ProcessFrom(Blocks)

Next == SetParameter \/ SetSampleRate \/ Process

Spec == Init /\ [][Next]_vars

(* ---------------------------------------------------------------------- *)
(* The same plugin under the sample rates of real hosts.  The delay lines  *)
(* are long, so the host delivers one kind of block only.                  *)
(* ---------------------------------------------------------------------- *)

SizingRates == {100, 44100, 48000}

SizingTimeInfos == {Some(r) : r \in SizingRates} \cup {None}

SizingBlocks == {<<<<Unit, -500>>>>}

SizingInit == InitFrom(SizingTimeInfos)

SizingSetParameter == SetParameterFrom(Indices)

SizingSetSampleRate == SetSampleRateFrom(SizingRates)

SizingProcess == ProcessFrom(SizingBlocks)

SizingNext == SizingSetParameter \/ SizingSetSampleRate \/ SizingProcess

SpecSizing == SizingInit /\ [][SizingNext]_vars

(* ---------------------------------------------------------------------- *)
(* The same plugin under a host that keeps the delay time parameter in     *)
(* 0.0 .. 1.0 and goes up to 1.0.                                          *)
(* ---------------------------------------------------------------------- *)

HostDelayValues == {0, 1, 500, 1000}

RangeInit == InitFrom(TimeInfos)

RangeSetDelayTime == \E value \in HostDelayValues : set_parameter(0, value)

RangeSetParameter == SetParameterFrom({1, 2, 3})

RangeSetSampleRate == SetSampleRateFrom(Rates)

RangeProcess == ProcessFrom(SizingBlocks)

RangeNext ==
  RangeSetDelayTime \/ RangeSetParameter \/ RangeSetSampleRate \/ RangeProcess

SpecRange == RangeInit /\ [][RangeNext]_vars

(* ---------------------------------------------------------------------- *)
(* mix_samples on its own: the function applied to arguments drawn from    *)
(* values whose halves are multiples of 1/Unit.                            *)
(* ---------------------------------------------------------------------- *)

MixValues == {-1000, -500, 0, 200, 500, 1000}

MixAmounts == {0, 500, 1000, 1500}

MixInit == InitFrom({None})

MixSamples ==
  \E original \in MixValues : \E added \in MixValues :
    \E amount \in MixAmounts :
      /\ mix_call' = [original |-> original, added |-> added,
                      amount |-> amount,
                      result |-> mix_samples(original, added, amount)]
      /\ UNCHANGED <<delay_time, dry_wet, sample_rate, delay_buffer,
                     feedback_amt, audio, pushed, popped, discarded, last_op>>

MixNext == MixSamples

SpecMix == MixInit /\ [][MixNext]_vars

(* ---------------------------------------------------------------------- *)
(* Properties                                                              *)
(* ---------------------------------------------------------------------- *)

\* the capacity of the live delay line
Capacity == delay_buffer.capacity

\* the last call was process, so audio holds its block and the parameters
\* are the ones it ran with
Processed == last_op.op = "process"

\* the block just processed was the first one pushed into its delay line
FreshAtEntry == Processed /\ Len(pushed) = Len(audio.inputs)

\* the last call rebuilt the delay line
Rebuilt ==
  \/ last_op.op = "set_sample_rate"
  \/ last_op.op = "set_parameter" /\ last_op.index = 0

\* C1: after construction and after any sequence of calls the delay line
\* capacity is at least 1, and every add made by process returned a value.
C1_CapacityAtLeastOne ==
  /\ Capacity >= 1
  /\ \A k \in 1..Len(popped) : popped[k] # None

\* C2: FIFO.  With no rebuild in between, the k-th value popped from a delay
\* line of capacity C is the (k-C)-th value pushed, for every k beyond C,
\* as a (left, right) pair.
C2_Fifo ==
  \A k \in 1..Len(popped) :
    k > Capacity => popped[k] = Some(pushed[k - Capacity])

\* C2 witness: more frames than the capacity have gone through a delay line
\* of capacity at least 1, in more than one block, and a pair with
\* different left and right values has come out.
C2_Witness ==
  /\ Processed
  /\ Capacity >= 1
  /\ Len(popped) > Capacity
  /\ Len(pushed) > Len(audio.inputs)
  /\ \E k \in 1..Len(popped) :
       popped[k] # None /\ Unwrap(popped[k])[1] # Unwrap(popped[k])[2]

\* The feedback scenario: sample rate 100, delay time 0.01 (capacity 2),
\* feedback 0.5 (effective gain 0.4), dry/wet 1.0, and an impulse block as
\* the first block of a newly built delay line.
FeedbackScenario(n) ==
  /\ FreshAtEntry
  /\ sample_rate = 100
  /\ delay_time = 10
  /\ feedback_amt = 500
  /\ dry_wet = Unit
  /\ audio.inputs = Impulse(n)

\* C3 as stated: in the feedback scenario with the block [1,0,0,0,0] the
\* decayed echo is in the output at frame 4 (the fifth frame), value 0.4.
C3_EchoAtFrame4 ==
  FeedbackScenario(5) => audio.outputs[5] = <<400, 400>>

\* C3 as amended: in the feedback scenario the output is 0 at frame 4 and
\* the decayed echo 0.4 is in the output at frame 5 (the sixth frame): with
\* the block [1,0,0,0,0] it is then the oldest pair of the delay line, with
\* the block [1,0,0,0,0,0] it is written to the output.
C3_EchoAtFrame5 ==
  \A n \in ImpulseLens :
    FeedbackScenario(n) =>
      /\ audio.outputs[3] = <<Unit, Unit>>
      /\ audio.outputs[5] = ZeroPair
      /\ n = 5 => Head(delay_buffer.queue) = <<400, 400>>
      /\ n = 6 => audio.outputs[6] = <<400, 400>>

\* C3 witness: the six-frame impulse block has been processed in the
\* feedback scenario and its echo is in the output.
C3_Witness ==
  /\ FeedbackScenario(6)
  /\ audio.outputs[6] = <<400, 400>>

\* C4: with effective gain 0 (feedback 0.1) and dry/wet 1.0, the first block
\* through a newly built delay line of capacity C comes out as C frames of
\* silence followed by the input delayed by C frames, on both channels; for
\* C = 2 and input [1,0,0,0,0] the output is [0,0,1,0,0].
C4_PureDelay ==
  (FreshAtEntry /\ feedback_amt = 100 /\ dry_wet = Unit) =>
    /\ \A i \in 1..Len(audio.inputs) :
         audio.outputs[i] =
           IF i <= Capacity THEN ZeroPair ELSE audio.inputs[i - Capacity]
    /\ (Capacity = 2 /\ audio.inputs = Impulse(5)) =>
         audio.outputs = <<ZeroPair, ZeroPair, <<Unit, Unit>>, ZeroPair, ZeroPair>>

\* C4 witness: the block [1,0,0,0,0] has gone through a new delay line of
\* capacity 2 with feedback 0.1 and dry/wet 1.0, the output channels having
\* held the input before the call.
C4_Witness ==
  /\ FreshAtEntry
  /\ feedback_amt = 100
  /\ dry_wet = Unit
  /\ Capacity = 2
  /\ audio.inputs = Impulse(5)
  /\ audio.outputs_before = audio.inputs

\* C5: the effective feedback gain is never negative and always strictly
\* below 0.9.
C5_GainRange ==
  /\ FeedbackGain >= 0
  /\ FeedbackGain < 900

\* the larger of two values
Larger(a, b) == IF a > b THEN a ELSE b

\* C6: set_parameter clamps from below: after set_parameter(0, v),
\* get_parameter(0) is max(v, 0.001); after set_parameter(1, v),
\* get_parameter(1) is max(v, 0.1); a value of 0.0 gives 0.001 and 0.1.
C6_ClampFromBelow ==
  last_op.op = "set_parameter" =>
    /\ last_op.index = 0 => get_parameter(0) = Larger(last_op.value, 1)
    /\ last_op.index = 1 => get_parameter(1) = Larger(last_op.value, 100)
    /\ (last_op.index = 0 /\ last_op.value = 0) => get_parameter(0) = 1
    /\ (last_op.index = 1 /\ last_op.value = 0) => get_parameter(1) = 100

\* C6 witness: set_parameter(0, 0.0) has just run on a plugin whose feedback
\* had been set above its minimum before.
C6_Witness ==
  /\ last_op = Op("set_parameter", 0, 0)
  /\ feedback_amt > 100

\* C7: the capacity of the live delay line is floor(sample_rate *
\* delay_time * 2) of the current sample rate and the current delay time;
\* for 44100 and 0.001 it is 88.
C7_Sizing ==
  LET x == sample_rate * delay_time * 2 IN
    /\ Capacity * Unit <= x
    /\ x < (Capacity + 1) * Unit
    /\ (sample_rate = 44100 /\ delay_time = 1) => Capacity = 88

\* C7 witness: the host has changed the sample rate to 44100 while the delay
\* time was 0.001, and the delay line has 88 slots.
C7_Witness ==
  /\ last_op = Op("set_sample_rate", 0, 44100)
  /\ delay_time = 1
  /\ Capacity = 88

\* C8: after any number of frames processed by any number of process calls
\* the delay line holds exactly as many elements as its capacity.
C8_Occupancy == Len(delay_buffer.queue) = Capacity

\* C8 witness: a second block has gone through a delay line of capacity at
\* least 2.
C8_Witness ==
  /\ Processed
  /\ Len(pushed) > Len(audio.inputs)
  /\ Capacity >= 2

\* C9: set_parameter(0, v) and set_sample_rate(r) leave a new delay line
\* with (0.0, 0.0) in every slot whatever the old one held; the next C pops
\* return (0.0, 0.0), and nothing popped afterwards was pushed before the
\* call.
C9_RebuildSilence ==
  /\ Rebuilt =>
       delay_buffer.queue = [i \in 1..Capacity |-> ZeroPair]
  /\ \A k \in 1..Len(popped) :
       IF k <= Capacity
         THEN popped[k] = Some(ZeroPair)
         ELSE \E j \in 1..k : popped[k] = Some(pushed[j])

\* C9 witness: a delay line holding a pair other than silence was replaced
\* by one of capacity at least 1, and at least as many frames as its
\* capacity, none of them silent, have been processed since.
C9_Witness ==
  /\ discarded
  /\ Capacity >= 1
  /\ Len(popped) >= Capacity
  /\ \A k \in 1..Len(pushed) : pushed[k] # ZeroPair

\* the number of frames of the block just processed
BlockLen == Len(audio.inputs)

\* C10: the feedback pair is (0, 0) at the start of every process call: the
\* pair pushed at frame 0 of a block is the input pair at frame 0, whatever
\* the previous block popped last and whatever the feedback amount.
C10_FeedbackReset ==
  (Processed /\ BlockLen >= 1) =>
    pushed[Len(pushed) - BlockLen + 1] = audio.inputs[1]

\* C10 witness: a block has been processed with a feedback gain above 0
\* right after a block whose last pop was not silence.
C10_Witness ==
  /\ Processed
  /\ BlockLen >= 1
  /\ Len(popped) > BlockLen
  /\ popped[Len(popped) - BlockLen] # Some(ZeroPair)
  /\ FeedbackGain > 0

\* the queue of a delay line of n slots that holds nothing but silence
Silence(n) == [i \in 1..n |-> ZeroPair]

\* C11: the first C pops from a newly built delay line of capacity C give
\* the fill value (0.0, 0.0), whatever those C calls push.
C11_PreFill ==
  /\ pushed = <<>> => delay_buffer.queue = Silence(Capacity)
  /\ \A k \in 1..Len(popped) :
       k <= Capacity => (popped[k] # None /\ Unwrap(popped[k]) = ZeroPair)

\* C11 witness: a delay line of capacity at least 2 has been pushed at least
\* as many pairs as its capacity, the first of them not silence.
C11_Witness ==
  /\ Capacity >= 2
  /\ Len(popped) >= Capacity
  /\ pushed[1] # ZeroPair

\* parameter indices that name no parameter
OtherIndices == {-1, 3, 4}

\* C12: for an index other than 0, 1, 2, set_parameter changes nothing of
\* the plugin (delay time, feedback, dry/wet, sample rate, delay line),
\* get_parameter gives 0.0, and the name, text and label are empty strings.
C12_OtherIndex ==
  /\ [](\A index \in OtherIndices :
          /\ get_parameter(index) = 0
          /\ get_parameter_name(index) = ""
          /\ get_parameter_text(index) = ""
          /\ get_parameter_label(index) = "")
  /\ [][(last_op'.op = "set_parameter" /\ last_op'.index \notin {0, 1, 2}) =>
          UNCHANGED <<delay_time, feedback_amt, dry_wet, sample_rate,
                      delay_buffer>>]_vars

\* C12 witness: set_parameter(3, 0.5) has just run on a plugin whose
\* parameters are not the initial ones and whose delay line holds a pair
\* other than silence.
C12_Witness ==
  /\ last_op = Op("set_parameter", 3, 500)
  /\ delay_time # 1
  /\ feedback_amt # 100
  /\ dry_wet # Unit
  /\ Live(delay_buffer.queue)

\* C13: dry/wet is stored as given: after set_parameter(2, v),
\* get_parameter(2) is v, also for v outside 0.0 .. 1.0.
C13_DryWetUnclamped ==
  (last_op.op = "set_parameter" /\ last_op.index = 2) =>
    get_parameter(2) = last_op.value

\* C13 witness: set_parameter(2, 1.5) has just run.
C13_Witness ==
  /\ last_op = Op("set_parameter", 2, 1500)
  /\ get_parameter(2) = 1500

\* C14: mix(original, added, amount) gives original for amount 0, added for
\* amount 1 and the mean of the two for amount 0.5; mix(1, 0, 1) is 0 and
\* mix(1, 0, 0) is 1.
C14_MixBoundary ==
  mix_call # NoCall =>
    LET x == mix_call.original
        y == mix_call.added
        r == mix_call.result
    IN  /\ mix_call.amount = 0 => r = x
        /\ mix_call.amount = Unit => r = y
        /\ mix_call.amount = 500 => 2 * r = x + y
        /\ (x = Unit /\ y = 0 /\ mix_call.amount = Unit) => r = 0
        /\ (x = Unit /\ y = 0 /\ mix_call.amount = 0) => r = Unit

\* C14 witness: mix(0.2, -0.5, 0.5) has been computed and is -0.15.
C14_Witness ==
  /\ mix_call # NoCall
  /\ mix_call.original = 200
  /\ mix_call.added = -500
  /\ mix_call.amount = 500
  /\ mix_call.result = -150

\* the last n elements of a sequence
Last(seq, n) == SubSeq(seq, Len(seq) - n + 1, Len(seq))

\* the left and the right channel of a sequence of pairs
Left(pairs) == [i \in 1..Len(pairs) |-> pairs[i][1]]
Right(pairs) == [i \in 1..Len(pairs) |-> pairs[i][2]]

\* C15: with dry/wet 0.0 a process call leaves every output sample as it
\* was before the call (the dry signal is what the output channels held,
\* not the input), and the delay line still takes one add per frame: the
\* block's pairs enter the queue in order and the oldest pairs leave it.
C15_DryOnly ==
  [][(last_op'.op = "process" /\ dry_wet = 0) =>
       /\ audio'.outputs = audio'.outputs_before
       /\ Len(pushed') = Len(pushed) + Len(audio'.inputs)
       /\ Len(popped') = Len(popped) + Len(audio'.inputs)
       /\ delay_buffer'.queue =
            Last(delay_buffer.queue \o Last(pushed', Len(audio'.inputs)),
                 Capacity)]_vars

\* C15 witness: a block other than silence has been processed with dry/wet
\* 0.0 into output channels that held silence, and a pair other than
\* silence came out of the delay line during the block.
C15_Witness ==
  /\ Processed
  /\ dry_wet = 0
  /\ Capacity >= 1
  /\ audio.outputs_before # audio.inputs
  /\ audio.outputs = audio.outputs_before
  /\ \E k \in 1..BlockLen :
       popped[Len(popped) - BlockLen + k] # Some(ZeroPair)

\* a process call on the frames from..to of a block, made on a plugin whose
\* delay buffer is buf: the loop started with the feedback pair (0, 0)
Replay(buf, inputs, outputs, from, to) ==
  ProcessLoop([buf |-> buf, fb |-> ZeroPair,
               outputs |-> SubSeq(outputs, from, to),
               pushed |-> <<>>, popped |-> <<>>],
              SubSeq(inputs, from, to), to - from + 1)

\* C16: the delay line is carried from one process call to the next: with
\* effective gain 0 and no other call in between, a block processed in one
\* call and the same block cut in two at any frame and processed in two
\* calls give the same output samples and the same delay line (and so any
\* partition into consecutive blocks does).
C16_BlockPartition ==
  [][(last_op'.op = "process" /\ feedback_amt = 100) =>
       \A cut \in 1..(Len(audio'.inputs) - 1) :
         LET n      == Len(audio'.inputs)
             first  == Replay(delay_buffer, audio'.inputs,
                              audio'.outputs_before, 1, cut)
             second == Replay(first.buf, audio'.inputs,
                              audio'.outputs_before, cut + 1, n)
         IN  /\ audio'.outputs = first.outputs \o second.outputs
             /\ delay_buffer' = second.buf]_vars

\* C16 witness: with feedback 0.1 a block of at least two frames has been
\* processed after an earlier block, and pairs other than silence came out
\* of the delay line in it.
C16_Witness ==
  /\ Processed
  /\ feedback_amt = 100
  /\ BlockLen >= 2
  /\ Len(pushed) > BlockLen
  /\ Capacity >= 1
  /\ \A k \in 1..BlockLen :
       popped[Len(popped) - BlockLen + k] # Some(ZeroPair)

\* C17: when every value the host passes to set_parameter(0, v) is in
\* 0.0 .. 1.0, the delay time is in 0.001 .. 1.0 and the capacity is at most
\* floor(2 * sample_rate), two seconds of audio.
C17_TwoSeconds ==
  /\ (last_op.op = "set_parameter" /\ last_op.index = 0) =>
       (0 <= last_op.value /\ last_op.value <= Unit)
  /\ 1 <= delay_time
  /\ delay_time <= Unit
  /\ Capacity <= 2 * sample_rate

\* C17 witness: the host has set the delay time to 1.0 at a sample rate
\* above 0 and frames have been processed; the delay line holds two
\* seconds of audio.
C17_Witness ==
  /\ delay_time = Unit
  /\ sample_rate > 0
  /\ Capacity = 2 * sample_rate
  /\ Processed

\* a sequence of pairs with the right, or the left, channel silenced
SilenceRight(pairs) == [i \in 1..Len(pairs) |-> <<pairs[i][1], 0>>]
SilenceLeft(pairs) == [i \in 1..Len(pairs) |-> <<0, pairs[i][2]>>]

\* C18: the channels do not interfere and share one tap.  What a process
\* call leaves in the left channel of the output and of the delay line is
\* what it leaves there when every right-channel sample it reads (input,
\* output channel, delay line) is replaced by 0.0, so two runs that differ
\* in right-channel samples only agree on the left channel; the same holds
\* with left and right exchanged.  A popped pair is, in both channels, the
\* pair pushed the same number of frames earlier.
C18_ChannelIndependence ==
  /\ [][last_op'.op = "process" =>
          LET n == Len(audio'.inputs)
              onlyLeft ==
                Replay([delay_buffer EXCEPT !.queue = SilenceRight(@)],
                       SilenceRight(audio'.inputs),
                       SilenceRight(audio'.outputs_before), 1, n)
              onlyRight ==
                Replay([delay_buffer EXCEPT !.queue = SilenceLeft(@)],
                       SilenceLeft(audio'.inputs),
                       SilenceLeft(audio'.outputs_before), 1, n)
          IN  /\ Left(audio'.outputs) = Left(onlyLeft.outputs)
              /\ Left(delay_buffer'.queue) = Left(onlyLeft.buf.queue)
              /\ Right(audio'.outputs) = Right(onlyRight.outputs)
              /\ Right(delay_buffer'.queue) = Right(onlyRight.buf.queue)]_vars
  /\ [](\A k \in 1..Len(popped) :
          k > Capacity =>
            /\ Unwrap(popped[k])[1] = pushed[k - Capacity][1]
            /\ Unwrap(popped[k])[2] = pushed[k - Capacity][2])

\* C18 witness: with a feedback gain above 0, a block has been processed
\* after an earlier one, and a pair whose left and right samples differ
\* came out of the delay line before the last frame of the block.
C18_Witness ==
  /\ Processed
  /\ FeedbackGain > 0
  /\ Capacity >= 1
  /\ BlockLen >= 2
  /\ Len(pushed) > BlockLen
  /\ LET first == Unwrap(popped[Len(popped) - BlockLen + 1])
     IN  first[1] # 0 /\ first[2] # 0 /\ first[1] # first[2]

\* gain to the n-th power, each product rounded as process rounds it
RECURSIVE Pow(_, _)
Pow(gain, n) == IF n = 0 THEN Unit ELSE FMul(Pow(gain, n - 1), gain)

\* C19: the feedback path adds one frame of latency.  Within a block the
\* pair popped at a frame, scaled by the effective gain (feedback amount
\* less 0.1), is added to the input pushed at the next frame; so with
\* dry/wet 1.0, a new delay line of capacity C and a unit impulse at frame
\* 0, the output is gain^n at frame C + n*(C+1) and 0 at every other frame.
C19_ImpulseResponse ==
  /\ Processed =>
       \A j \in 1..(BlockLen - 1) :
         LET k    == Len(pushed) - BlockLen + j
             temp == Unwrap(popped[k])
         IN  pushed[k + 1] =
               <<audio.inputs[j + 1][1]
                   + FMul(temp[1], feedback_amt - FEEDBACK_FACTOR),
                 audio.inputs[j + 1][2]
                   + FMul(temp[2], feedback_amt - FEEDBACK_FACTOR)>>
  /\ \A n \in ImpulseLens :
       (FreshAtEntry /\ dry_wet = Unit /\ audio.inputs = Impulse(n)) =>
         \A i \in 1..n :
           LET frame == i - 1
               echo  == IF frame >= Capacity
                              /\ (frame - Capacity) % (Capacity + 1) = 0
                          THEN Pow(feedback_amt - FEEDBACK_FACTOR,
                                   (frame - Capacity) \div (Capacity + 1))
                          ELSE 0
           IN  audio.outputs[i] = <<echo, echo>>

\* C19 witness: the six-frame impulse has gone through a new delay line of
\* capacity 1 with gain 0.4 and dry/wet 1.0, and the output holds the
\* impulse at frame 1 and its echoes 0.4 at frame 3 and 0.16 at frame 5.
C19_Witness ==
  /\ FreshAtEntry
  /\ dry_wet = Unit
  /\ Capacity = 1
  /\ feedback_amt = 500
  /\ audio.inputs = Impulse(6)
  /\ audio.outputs =
       <<ZeroPair, <<Unit, Unit>>, ZeroPair, <<400, 400>>,
         ZeroPair, <<160, 160>>>>

\* C20: set_parameter with index 1 or 2 leaves the delay line (capacity and
\* every stored pair, in order), the delay time and the sample rate as they
\* were, and changes its own parameter only.  Delay line contents are
\* discarded by set_parameter with index 0 and by set_sample_rate only: a
\* process call keeps the capacity and drops stored pairs only by popping
\* them, oldest first, as it pushes.
C20_FrameEffect ==
  [][/\ (last_op'.op = "set_parameter" /\ last_op'.index = 1) =>
          /\ UNCHANGED <<delay_buffer, delay_time, sample_rate, dry_wet>>
          /\ feedback_amt' = FMax(last_op'.value, 100)
     /\ (last_op'.op = "set_parameter" /\ last_op'.index = 2) =>
          /\ UNCHANGED <<delay_buffer, delay_time, sample_rate, feedback_amt>>
          /\ dry_wet' = last_op'.value
     /\ (last_op'.op = "set_parameter" /\ last_op'.index \notin {0, 1, 2}) =>
          UNCHANGED delay_buffer
     /\ last_op'.op = "process" =>
          LET n   == Len(audio'.inputs)
              all == delay_buffer.queue \o Last(pushed', n)
          IN  /\ delay_buffer'.capacity = delay_buffer.capacity
              /\ delay_buffer'.queue = Last(all, delay_buffer.capacity)
              /\ Last(popped', n) = [i \in 1..n |-> Some(all[i])]]_vars

\* C20 witness: the last call set the feedback amount to 0.5 or the dry/wet
\* amount to 0.0 while the delay line held a pair that is not silence.
C20_Witness ==
  /\ last_op.op = "set_parameter"
  /\ \/ last_op.index = 1 /\ feedback_amt = 500
     \/ last_op.index = 2 /\ dry_wet = 0
  /\ Capacity >= 2
  /\ Live(delay_buffer.queue)
  /\ delay_buffer.queue[1] # delay_buffer.queue[2]

====
